---------------------------- MODULE Spec2Model ----------------------------
(* Evaluation harness of the langwatch cookbooks:                           *)
(*   - the tool-calling notebook: calculate_precision, calculate_recall,    *)
(*     calculate_precision_recall_for_queries, extract_tool_calls,          *)
(*     process_user_query + asyncio.gather, calculate_per_tool_recall;      *)
(*   - the hybrid-vs-vector notebook: sanitize_query, the three search      *)
(*     adapters, recall, mrr, evaluate_search, the driver loop over         *)
(*     k_values with aggregate_metrics;                                     *)
(*   - the GRPO notebook's reward functions contains_answer, recall_score.  *)
(*                                                                          *)
(* Python floats are modelled as exact fractions [num, den]; den = 0 is     *)
(* NaN.  A call that raises is modelled by the exc field of its outcome.    *)
EXTENDS Integers, Sequences, FiniteSets, TLC

VARIABLES
    \* ---- pure-function harness (SpecMetrics) ----
    mcall,      \* name of the function applied, "none" before the call
    margs,      \* the arguments of the call
    mret,       \* outcome of the call: [exc, val]
    \* ---- hybrid-vs-vector driver cell ----
    spc,        \* position of the driver cell
    index,      \* how the search index answers each method (environment)
    k_values,   \* the configured result-set sizes
    queries,    \* number of labelled queries (len(queries))
    expected_ids, \* expected_ids[idx]: list of relevant ids of query idx
    ki,         \* index into k_values of the k being processed
    idx,        \* index of the query evaluate_search is at (1-based)
    meth,       \* index into Methods of the next cell of that query
    metrics,    \* the dict of evaluate_search: method -> list of records
    results,    \* the driver's results list (rows of the report)
    failed,     \* the (k, idx, method) cell in which an adapter call raised
    submitted,  \* the adapter calls of the latest cell: [arg, sent]
    \* ---- tool-calling run cell ----
    tpc,        \* position of the run cell
    tests,      \* the eval set: list of [query, expected]
    task,       \* task[i]: state of the i-th process_user_query coroutine:
                \* "pending" (remote call in flight), "hung" (in flight, the
                \* service will never answer), "returned", "raised"
    response,   \* response[i]: what coroutine i returned
    order,      \* indices of the coroutines in completion order
    df          \* the result table built by the run cell

vars == << mcall, margs, mret,
           spc, index, k_values, queries, expected_ids, ki, idx, meth, metrics,
           results, failed, submitted,
           tpc, tests, task, response, order, df >>

mvars == << mcall, margs, mret >>
svars == << spc, index, k_values, queries, expected_ids, ki, idx, meth, metrics,
            results, failed, submitted >>
tvars == << tpc, tests, task, response, order, df >>

-----------------------------------------------------------------------------
(* Bounds of the model *)

MaxLen == 3         \* longest result / expected list given to a metric
MaxDocs == 2        \* most answers / retrieved docs given to a reward function
MaxRows == 2        \* most rows of a table given to calculate_per_tool_recall
MaxQueries == 2     \* most labelled queries of the search evaluation
MaxTests == 3       \* most entries of the tool-calling eval set

-----------------------------------------------------------------------------
(* Sequences and fractions *)

Range(s) == { s[i] : i \in DOMAIN s }

SeqsUpTo(S, n) == UNION { [1..m -> S] : m \in 0..n }

RECURSIVE GCD(_, _)
GCD(a, b) == IF b = 0 THEN a ELSE GCD(b, a % b)

\* the float n/d (d > 0), in lowest terms
Frac(n, d) == LET g == GCD(n, d) IN [num |-> n \div g, den |-> d \div g]

Zero == Frac(0, 1)
One  == Frac(1, 1)
NaN  == [num |-> 0, den |-> 0]

IsNaN(x) == x.den = 0
Leq(x, y) == x.num * y.den <= y.num * x.den
Less(x, y) == x.num * y.den < y.num * x.den
Add(x, y) == Frac(x.num * y.den + y.num * x.den, x.den * y.den)
InUnit(x) == ~IsNaN(x) /\ Leq(Zero, x) /\ Leq(x, One)

\* outcome of a call
Value(v) == [exc |-> "none", val |-> v]
Raise(e) == [exc |-> e, val |-> NaN]

\* variant: the ratio is returned as it is
round2_not_applied(n, d) == Frac(n, d)

\* Python's round(n / d, 2): the nearest multiple of 0.01, ties to even
round2(n, d) ==
    LET q == (100 * n) \div d
        r == (100 * n) % d
        h == IF 2 * r < d THEN q
             ELSE IF 2 * r > d THEN q + 1
             ELSE IF q % 2 = 0 THEN q ELSE q + 1
    IN  Frac(h, 100)


-----------------------------------------------------------------------------
(* Tool-calling notebook: per-query metrics *)

\* sum(1 for tool in xs if tool in ys)
RECURSIVE CountIn(_, _)
CountIn(xs, ys) ==
    IF xs = << >> THEN 0
    ELSE (IF Head(xs) \in Range(ys) THEN 1 ELSE 0) + CountIn(Tail(xs), ys)

\* variant: an empty call list is rewarded when nothing was expected
calculate_precision_reward_no_action(model_tool_call, expected_tool_call) ==
    IF model_tool_call = << >>
    THEN (IF expected_tool_call = << >> THEN Value(One) ELSE Value(Zero))
    ELSE Value(round2(CountIn(model_tool_call, expected_tool_call),
                      Len(model_tool_call)))

\* variant: the numerator counts each distinct tool once
calculate_precision_dedup(model_tool_call, expected_tool_call) ==
    IF model_tool_call = << >> THEN Value(Zero)
    ELSE Value(round2(Cardinality(Range(model_tool_call)
                                  \cap Range(expected_tool_call)),
                      Len(model_tool_call)))

calculate_precision(model_tool_call, expected_tool_call) ==
    IF model_tool_call = << >> THEN Value(Zero)
    ELSE LET correct_calls == CountIn(model_tool_call, expected_tool_call)
         IN  Value(round2(correct_calls, Len(model_tool_call)))

\* variant: the two emptiness checks in the other order
calculate_recall_actual_first(model_tool_call, expected_tool_call) ==
    IF model_tool_call = << >> THEN Value(Zero)
    ELSE IF expected_tool_call = << >> THEN Value(One)
    ELSE Value(round2(CountIn(expected_tool_call, model_tool_call),
                      Len(expected_tool_call)))

calculate_recall(model_tool_call, expected_tool_call) ==
    IF expected_tool_call = << >> THEN Value(One)
    ELSE IF model_tool_call = << >> THEN Value(Zero)
    ELSE LET correct_calls == CountIn(expected_tool_call, model_tool_call)
         IN  Value(round2(correct_calls, Len(expected_tool_call)))

\* the two df.apply(..., axis=1) assignments: the frame with a precision and
\* a recall column added
add_columns(frame) ==
    [i \in DOMAIN frame |->
        [expected  |-> frame[i].expected,
         actual    |-> frame[i].actual,
         precision |-> calculate_precision(frame[i].actual, frame[i].expected).val,
         recall    |-> calculate_recall(frame[i].actual, frame[i].expected).val]]

\* variant: the columns are assigned on the frame that was passed in
calculate_precision_recall_for_queries_in_place(frame) ==
    [caller |-> add_columns(frame), returned |-> add_columns(frame)]

\* df = df.copy() rebinds the local name to a new frame; the assignments go
\* to that frame.  caller: the frame the caller passed, after the call;
\* returned: the frame returned.
calculate_precision_recall_for_queries(frame) ==
    LET copy == frame
    IN  [caller |-> frame, returned |-> add_columns(copy)]

-----------------------------------------------------------------------------
(* Hybrid-vs-vector notebook: per-query metrics *)

\* variant: every retrieved occurrence of an expected id is counted
recall_count_occurrences(retrieved, expected) ==
    IF Len(expected) = 0 THEN Raise("ZeroDivisionError")
    ELSE Value(Frac(CountIn(retrieved, expected), Len(expected)))

\* variant: the hits are divided by the number of retrieved ids
recall_over_retrieved(retrieved, expected) ==
    IF Len(retrieved) = 0 THEN Raise("ZeroDivisionError")
    ELSE Value(Frac(Cardinality(Range(retrieved) \cap Range(expected)),
                    Len(retrieved)))

recall(retrieved, expected) ==
    IF Len(expected) = 0 THEN Raise("ZeroDivisionError")
    ELSE Value(Frac(Cardinality(Range(retrieved) \cap Range(expected)),
                    Len(expected)))

\* for rank, doc_id in enumerate(retrieved, 1): first hit returns 1.0 / rank
RECURSIVE mrr_scan(_, _, _)
mrr_scan(retrieved, expected, rank) ==
    IF rank > Len(retrieved) THEN Zero
    ELSE IF retrieved[rank] \in Range(expected) THEN Frac(1, rank)
    ELSE mrr_scan(retrieved, expected, rank + 1)

\* variant: the scan does not stop at the first hit
RECURSIVE mrr_scan_last(_, _, _, _)
mrr_scan_last(retrieved, expected, rank, best) ==
    IF rank > Len(retrieved) THEN best
    ELSE mrr_scan_last(retrieved, expected, rank + 1,
                       IF retrieved[rank] \in Range(expected)
                       THEN Frac(1, rank) ELSE best)

mrr_last_match(retrieved, expected) ==
    Value(mrr_scan_last(retrieved, expected, 1, Zero))

\* variant: the rank of the first hit is counted from the end of the list
RECURSIVE mrr_scan_from_end(_, _, _)
mrr_scan_from_end(retrieved, expected, rank) ==
    IF rank > Len(retrieved) THEN Zero
    ELSE IF retrieved[rank] \in Range(expected)
         THEN Frac(1, Len(retrieved) - rank + 1)
    ELSE mrr_scan_from_end(retrieved, expected, rank + 1)

mrr_rank_from_end(retrieved, expected) ==
    Value(mrr_scan_from_end(retrieved, expected, 1))

\* variant: only the first retrieved id is looked at
mrr_top_only(retrieved, expected) ==
    IF retrieved # << >> /\ retrieved[1] \in Range(expected)
    THEN Value(One) ELSE Value(Zero)

mrr(retrieved, expected) == Value(mrr_scan(retrieved, expected, 1))

-----------------------------------------------------------------------------
(* GRPO notebook: reward functions.  A text is a sequence of characters. *)

Lower(c) == CASE c = "A" -> "a" [] c = "B" -> "b" [] OTHER -> c

lower(text) == [i \in DOMAIN text |-> Lower(text[i])]

IsAlnum(c) == c \in {"a", "b", "0"}

\* str.split(): the maximal runs of non-space characters, in order
RECURSIVE split(_, _)
split(text, cur) ==
    IF text = << >> THEN (IF cur = << >> THEN << >> ELSE << cur >>)
    ELSE IF Head(text) = " "
         THEN (IF cur = << >> THEN << >> ELSE << cur >>) \o split(Tail(text), << >>)
         ELSE split(Tail(text), Append(cur, Head(text)))

\* re.sub(r"[^a-z0-9]", " ", text.lower()).split()
normalize(text) ==
    LET low == lower(text)
        sub == [i \in DOMAIN low |-> IF IsAlnum(low[i]) THEN low[i] ELSE " "]
    IN  split(sub, << >>)

\* the inner loop of contains_answer over docs for one answer:
\* "hit", "miss" or the exception the division raises
RECURSIVE scan_docs(_, _)
scan_docs(answer_tokens, docs) ==
    IF docs = << >> THEN "miss"
    ELSE LET doc_tokens == Range(normalize(Head(docs)))
         IN  IF Cardinality(answer_tokens) = 0 THEN "ZeroDivisionError"
             ELSE IF 100 * Cardinality(answer_tokens \cap doc_tokens)
                       > 75 * Cardinality(answer_tokens)
                  THEN "hit"
             ELSE scan_docs(answer_tokens, Tail(docs))

RECURSIVE scan_answers(_, _)
scan_answers(answers, docs) ==
    IF answers = << >> THEN Value(Zero)
    ELSE LET got == scan_docs(Range(normalize(Head(answers))), docs)
         IN  IF got = "hit" THEN Value(One)
             ELSE IF got = "miss" THEN scan_answers(Tail(answers), docs)
             ELSE Raise(got)

contains_answer(example_answers, retrieved_docs) ==
    LET docs    == [i \in DOMAIN retrieved_docs |-> lower(retrieved_docs[i])]
        answers == [i \in DOMAIN example_answers |-> lower(example_answers[i])]
    IN  scan_answers(answers, docs)

\* Python's `label in doc` for strings
IsSubstring(label, doc) ==
    \E i \in 0..(Len(doc) - Len(label)) :
        \A j \in 1..Len(label) : doc[i + j] = label[j]

\* variant: a label is a hit only when it equals a retrieved doc
recall_score_exact(example_answers, retrieved_docs) ==
    LET predictions == [i \in DOMAIN retrieved_docs |-> lower(retrieved_docs[i])]
        labels      == [i \in DOMAIN example_answers |-> lower(example_answers[i])]
        hits == Cardinality({ i \in DOMAIN labels :
                    \E d \in DOMAIN predictions : labels[i] = predictions[d] })
    IN  IF labels = << >> THEN Value(Zero)
        ELSE Value(Frac(hits, Len(labels)))

recall_score(example_answers, retrieved_docs) ==
    LET predictions == [i \in DOMAIN retrieved_docs |-> lower(retrieved_docs[i])]
        labels      == [i \in DOMAIN example_answers |-> lower(example_answers[i])]
        hits == Cardinality({ i \in DOMAIN labels :
                    \E d \in DOMAIN predictions :
                        IsSubstring(labels[i], predictions[d]) })
    IN  IF labels = << >> THEN Value(Zero)
        ELSE Value(Frac(hits, Len(labels)))

-----------------------------------------------------------------------------
(* Tool-calling notebook: per-tool breakdown.  A table is a sequence of     *)
(* rows [expected, actual].                                                 *)

all_tools(rows) ==
    UNION { Range(rows[i].expected) \cup Range(rows[i].actual) : i \in DOMAIN rows }

\* variant: the expected list is not turned into a set before counting
RECURSIVE expected_calls_per_occurrence(_, _)
expected_calls_per_occurrence(rows, tool) ==
    IF rows = << >> THEN 0
    ELSE CountIn(Head(rows).expected, << tool >>)
         + expected_calls_per_occurrence(Tail(rows), tool)

\* the counting loop over df.iterrows(), for one tool
RECURSIVE expected_calls(_, _)
expected_calls(rows, tool) ==
    IF rows = << >> THEN 0
    ELSE (IF tool \in Range(Head(rows).expected) THEN 1 ELSE 0)
         + expected_calls(Tail(rows), tool)

\* variant: a call of the tool is counted whether or not it was expected
RECURSIVE correct_calls_whenever_called(_, _)
correct_calls_whenever_called(rows, tool) ==
    IF rows = << >> THEN 0
    ELSE (IF tool \in Range(Head(rows).actual) THEN 1 ELSE 0)
         + correct_calls_whenever_called(Tail(rows), tool)

RECURSIVE correct_calls(_, _)
correct_calls(rows, tool) ==
    IF rows = << >> THEN 0
    ELSE (IF tool \in Range(Head(rows).expected) /\ tool \in Range(Head(rows).actual)
          THEN 1 ELSE 0)
         + correct_calls(Tail(rows), tool)

\* recall = correct / expected if expected > 0 else 0
tool_recall(rows, tool) ==
    IF expected_calls(rows, tool) > 0
    THEN Frac(correct_calls(rows, tool), expected_calls(rows, tool))
    ELSE Zero

\* variant: sort_values("recall") with the default ascending order
SortedOrdersAscending(rows) ==
    LET T == all_tools(rows)
        n == Cardinality(T)
    IN  { f \in [1..n -> T] :
            /\ \A i, j \in 1..n : i # j => f[i] # f[j]
            /\ \A i \in 1..(n - 1) :
                 Leq(tool_recall(rows, f[i]), tool_recall(rows, f[i + 1])) }

\* sort_values("recall", ascending=False): the orders a sort by recall may
\* leave the rows in (the set all_tools is iterated in hash order and the
\* sort is not stable, so rows of equal recall come in any order)
SortedOrders(rows) ==
    LET T == all_tools(rows)
        n == Cardinality(T)
    IN  { f \in [1..n -> T] :
            /\ \A i, j \in 1..n : i # j => f[i] # f[j]
            /\ \A i \in 1..(n - 1) :
                 Leq(tool_recall(rows, f[i + 1]), tool_recall(rows, f[i])) }

\* variant: the division is not guarded by expected_calls[tool] > 0
calculate_per_tool_recall_unguarded(rows) ==
    IF all_tools(rows) = {} THEN { Raise("KeyError") }
    ELSE IF \E t \in all_tools(rows) : expected_calls(rows, t) = 0
    THEN { Raise("ZeroDivisionError") }
    ELSE { [exc |-> "none",
            val |-> [i \in DOMAIN f |->
                      [tool |-> f[i],
                       correct_calls |-> correct_calls(rows, f[i]),
                       expected_calls |-> expected_calls(rows, f[i]),
                       recall |-> LET r == tool_recall(rows, f[i])
                                  IN  round2(r.num, r.den)]]]
           : f \in SortedOrders(rows) }

\* the outcomes calculate_per_tool_recall(df) can have; .round(2) rounds the
\* recall column after the sort.  With no tool at all the frame has no
\* "recall" column and sort_values raises KeyError.
calculate_per_tool_recall(rows) ==
    IF all_tools(rows) = {} THEN { Raise("KeyError") }
    ELSE { [exc |-> "none",
            val |-> [i \in DOMAIN f |->
                      [tool |-> f[i],
                       correct_calls |-> correct_calls(rows, f[i]),
                       expected_calls |-> expected_calls(rows, f[i]),
                       recall |-> LET r == tool_recall(rows, f[i])
                                  IN  round2(r.num, r.den)]]]
           : f \in SortedOrders(rows) }

-----------------------------------------------------------------------------
(* Tool-calling notebook: extract_tool_calls.  A response is                *)
(* [has_output, output]; has_output tells whether it has an output attribute *)

\* items of response.output: a function call of a tool, a plain message
FunctionCall(name) == [type |-> "function_call", name |-> name]
Message == [type |-> "message", name |-> "-"]

\* the loop over response.output
RECURSIVE function_calls(_)
function_calls(output) ==
    IF output = << >> THEN << >>
    ELSE (IF Head(output).type = "function_call"
          THEN << Head(output).name >> ELSE << >>)
         \o function_calls(Tail(output))

\* variant: the type of the output item is not looked at
extract_tool_calls_any_type(resp) ==
    IF resp.has_output /\ resp.output # << >>
    THEN [i \in DOMAIN resp.output |-> resp.output[i].name]
    ELSE << >>

extract_tool_calls(resp) ==
    IF resp.has_output /\ resp.output # << >>
    THEN function_calls(resp.output)
    ELSE << >>

-----------------------------------------------------------------------------
(* Hybrid-vs-vector notebook: the query text given to the full-text index *)

\* variant: the character class lacks the backslash
RECURSIVE sanitize_query_quotes_only(_)
sanitize_query_quotes_only(query) ==
    IF query = << >> THEN << >>
    ELSE (IF Head(query) \in {"'", "\""} THEN << >> ELSE << Head(query) >>)
         \o sanitize_query_quotes_only(Tail(query))

\* variant: each of the three characters is replaced by a space
sanitize_query_blank(query) ==
    [i \in DOMAIN query |->
        IF query[i] \in {"'", "\"", "\\"} THEN " " ELSE query[i]]

\* re.sub(r"['\"\\]", "", query)
RECURSIVE sanitize_query(_)
sanitize_query(query) ==
    IF query = << >> THEN << >>
    ELSE (IF Head(query) \in {"'", "\"", "\\"} THEN << >> ELSE << Head(query) >>)
         \o sanitize_query(Tail(query))

-----------------------------------------------------------------------------
(* Inputs of the metric functions *)

ToolNames == {"send_email", "get_calendar_events", "create_reminder"}

ItemLists == SeqsUpTo(ToolNames, MaxLen)

\* texts over a capital, a lower-case letter, a punctuation mark, a space
Texts == { << >>, <<"?">>, <<"a">>, <<"A">>, <<"a", "b">>, <<"a", " ", "b">> }

TextLists == SeqsUpTo(Texts, MaxDocs)

CallLists == { << >>, <<"send_email">>, <<"get_calendar_events">>,
               <<"send_email", "get_calendar_events">>,
               <<"send_email", "send_email">> }

Tables == SeqsUpTo([expected : CallLists, actual : CallLists], MaxRows)

\* query strings over the three characters the pattern names, a letter and
\* a space
QueryChars == {"'", "\"", "\\", "a", " "}

QueryStrings == SeqsUpTo(QueryChars, MaxLen)

\* responses given to extract_tool_calls: without output attribute, or with
\* an output of messages and function calls
OutputItems == { Message, FunctionCall("send_email"), FunctionCall("get_calendar_events") }

ResponseObjects ==
    { [has_output |-> FALSE, output |-> << >>] }
    \cup [has_output : {TRUE}, output : SeqsUpTo(OutputItems, MaxLen)]

-----------------------------------------------------------------------------
(* Pure-function harness: Init draws the arguments, one action per function *)

IdleMetrics == mcall = "idle" /\ margs = << >> /\ mret = Value(Zero)

IdleSearch ==
    /\ spc = "idle" /\ index = << >> /\ k_values = << >> /\ queries = 0 /\ expected_ids = << >>
    /\ ki = 0 /\ idx = 0 /\ meth = 0 /\ metrics = << >> /\ results = << >>
    /\ failed = << >> /\ submitted = << >>

IdleTools ==
    /\ tpc = "idle" /\ tests = << >> /\ task = << >> /\ response = << >>
    /\ order = << >> /\ df = << >>

InitMetrics ==
    /\ mcall = "none"
    /\ margs \in [fam : {"lists"}, actual : ItemLists, expected : ItemLists]
            \cup [fam : {"texts"}, answers : TextLists, docs : TextLists]
            \cup [fam : {"table"}, rows : Tables]
            \cup [fam : {"query"}, query : QueryStrings]
            \cup [fam : {"response"}, response : ResponseObjects]
    /\ mret = Value(Zero)
    /\ IdleSearch
    /\ IdleTools

Apply(fam, name, outcome) ==
    /\ mcall = "none"
    /\ margs.fam = fam
    /\ mcall' = name
    /\ mret' = outcome
    /\ UNCHANGED << margs, svars, tvars >>

ApplyCalculatePrecision ==
    Apply("lists", "calculate_precision",
          calculate_precision(margs.actual, margs.expected))

ApplyCalculateRecall ==
    Apply("lists", "calculate_recall",
          calculate_recall(margs.actual, margs.expected))

ApplyRecall ==
    Apply("lists", "recall", recall(margs.actual, margs.expected))

ApplyMrr ==
    Apply("lists", "mrr", mrr(margs.actual, margs.expected))

ApplyContainsAnswer ==
    Apply("texts", "contains_answer", contains_answer(margs.answers, margs.docs))

ApplyRecallScore ==
    Apply("texts", "recall_score", recall_score(margs.answers, margs.docs))

ApplyExtractToolCalls ==
    Apply("response", "extract_tool_calls",
          Value(extract_tool_calls(margs.response)))

ApplySanitizeQuery ==
    Apply("query", "sanitize_query", Value(sanitize_query(margs.query)))

\* the call with the caller's frame as argument: margs.rows is that frame
ApplyCalculatePrecisionRecallForQueries ==
    /\ mcall = "none"
    /\ margs.fam = "table"
    /\ LET out == calculate_precision_recall_for_queries(margs.rows)
       IN  /\ margs' = [margs EXCEPT !.rows = out.caller]
           /\ mret' = Value(out.returned)
    /\ mcall' = "calculate_precision_recall_for_queries"
    /\ UNCHANGED << svars, tvars >>

ApplyCalculatePerToolRecall ==
    /\ margs.fam = "table"
    /\ \E out \in calculate_per_tool_recall(margs.rows) :
          Apply("table", "calculate_per_tool_recall", out)

NextMetrics ==
    \/ ApplyCalculatePrecision
    \/ ApplyCalculateRecall
    \/ ApplyRecall
    \/ ApplyMrr
    \/ ApplyContainsAnswer
    \/ ApplyRecallScore
    \/ ApplySanitizeQuery
    \/ ApplyExtractToolCalls
    \/ ApplyCalculatePrecisionRecallForQueries
    \/ ApplyCalculatePerToolRecall

SpecMetrics == InitMetrics /\ [][NextMetrics]_vars

-----------------------------------------------------------------------------
(* Hybrid-vs-vector notebook: adapters, evaluate_search, the driver loop *)

\* metrics = dict(semantic=[], lexical=[], hybrid=[]), in insertion order
Methods == <<"semantic", "lexical", "hybrid">>

\* ids of the product table; query i was generated from product DocId(i)
DocIds == <<"78", "154", "14">>
DocId(i) == DocIds[((i - 1) % Len(DocIds)) + 1]

\* the configurations of k_values explored (the notebook runs [3, 5, 10])
KConfigs == { << >>, <<1>>, <<2>>, <<1, 2>>, <<2, 1>>, <<2, 2>> }

\* How the index ranks the expected product for a method: first, second,
\* not at all, or differently from call to call.
Behaviours == {"top", "second", "miss", "any"}

Take(s, k) == SubSeq(s, 1, IF Len(s) < k THEN Len(s) ELSE k)

\* .limit(k).to_pandas()["id"].tolist(): the id lists a call may return
Ranked(behaviour, i, k) ==
    LET e == DocId(i)
        o == DocId(i + 1)
    IN  CASE behaviour = "top"    -> { Take(<<e, o>>, k) }
          [] behaviour = "second" -> { Take(<<o, e>>, k) }
          [] behaviour = "miss"   -> { Take(<<o>>, k) }
          [] OTHER                -> { Take(<<e, o>>, k), Take(<<o>>, k) }

\* the labelled queries: plain, with an apostrophe, with quotes and a backslash
QueryTexts == << <<"a", "'", "b">>, <<"\"", "a", "\"", "\\">>, <<"a", " ", "b">> >>
QueryText(i) == QueryTexts[((i - 1) % Len(QueryTexts)) + 1]

\* What an adapter hands to tbl.search: search_semantic the embedding,
\* search_lexical the sanitized text (query_type="fts"), search_hybrid both.
\* The embedding of query i is written i.
sent_to_index(method, query, embedding, k) ==
    CASE method = "semantic" ->
            [query_type |-> "vector", text |-> << >>, vector |-> embedding, limit |-> k]
      [] method = "lexical" ->
            [query_type |-> "fts", text |-> sanitize_query(query), vector |-> 0,
             limit |-> k]
      [] OTHER ->
            [query_type |-> "hybrid", text |-> sanitize_query(query),
             vector |-> embedding, limit |-> k]

\* the adapter calls one cell makes: the second one only if the first returned
calls_of_cell(method, query, embedding, k, first) ==
    LET call == [arg |-> query, sent |-> sent_to_index(method, query, embedding, k)]
    IN  IF first.exc # "none" THEN << call >> ELSE << call, call >>

\* One adapter call (search_semantic / search_lexical / search_hybrid): the
\* remote index returns a ranked id list of at most k ids, or the call raises.
search(method, i, k) ==
    { [exc |-> "none", ids |-> r] : r \in Ranked(index[method], i, k) }
    \cup { [exc |-> "ConnectionError", ids |-> << >>] }

\* variant: a call that raises is caught and the cell scored as a miss
cell_miss_on_failure(first, second, eid) ==
    IF first.exc # "none" \/ second.exc # "none"
    THEN [exc |-> "none", val |-> [recall |-> Zero, mrr |-> Zero]]
    ELSE [exc |-> "none",
          val |-> [recall |-> recall(first.ids, eid).val,
                   mrr |-> mrr(second.ids, eid).val]]

\* One entry of evaluate_search: {"recall": recall(search(..), eid),
\* "mrr": mrr(search(..), eid)}: two adapter calls, evaluated left to right.
\* The record, or the exception that leaves evaluate_search.
cell(first, second, eid) ==
    IF first.exc # "none" THEN Raise(first.exc)
    ELSE IF recall(first.ids, eid).exc # "none" THEN Raise(recall(first.ids, eid).exc)
    ELSE IF second.exc # "none" THEN Raise(second.exc)
    ELSE [exc |-> "none",
          val |-> [recall |-> recall(first.ids, eid).val,
                   mrr |-> mrr(second.ids, eid).val]]

RECURSIVE Sum(_)
Sum(xs) == IF xs = << >> THEN Zero ELSE Add(Head(xs), Sum(Tail(xs)))

\* np.mean: NaN (with a warning) for an empty list
mean(xs) ==
    IF xs = << >> THEN NaN
    ELSE LET t == Sum(xs) IN Frac(t.num, t.den * Len(xs))

\* variant: a method with no record gets no row
aggregate_metrics_skip_empty(m, k) ==
    IF \A x \in DOMAIN m : m[x] = << >> THEN << >>
    ELSE [j \in DOMAIN Methods |->
            [k |-> k, method |-> Methods[j],
             recall |-> mean([q \in DOMAIN m[Methods[j]] |-> m[Methods[j]][q].recall]),
             mrr |-> mean([q \in DOMAIN m[Methods[j]] |-> m[Methods[j]][q].mrr])]]

\* variant: the rows of one k come sorted by method name
aggregate_metrics_by_name(m, k) ==
    LET names == <<"hybrid", "lexical", "semantic">>
    IN  [j \in DOMAIN names |->
            [k |-> k, method |-> names[j],
             recall |-> mean([q \in DOMAIN m[names[j]] |-> m[names[j]][q].recall]),
             mrr |-> mean([q \in DOMAIN m[names[j]] |-> m[names[j]][q].mrr])]]

\* aggregate_metrics, then the rows appended for one k in summary order
aggregate_metrics(m, k) ==
    [j \in DOMAIN Methods |->
        [k |-> k,
         method |-> Methods[j],
         recall |-> mean([q \in DOMAIN m[Methods[j]] |-> m[Methods[j]][q].recall]),
         mrr |-> mean([q \in DOMAIN m[Methods[j]] |-> m[Methods[j]][q].mrr])]]

InitSearch ==
    /\ spc = "loop"
    /\ index \in { f \in [Range(Methods) -> Behaviours] :
                     Cardinality({ x \in Range(Methods) : f[x] = "any" }) <= 1 }
    /\ k_values \in KConfigs
    /\ queries \in 0..MaxQueries
    /\ expected_ids = [i \in 1..queries |-> << DocId(i) >>]
    /\ ki = 1 /\ idx = 0 /\ meth = 0
    /\ metrics = << >>
    /\ results = << >>
    /\ failed = << >>
    /\ submitted = << >>

\* variant: the metrics dict is created once, before the loop over k_values
StartK_keep_metrics ==
    /\ spc = "loop"
    /\ ki <= Len(k_values)
    /\ spc' = "eval"
    /\ metrics' = IF metrics = << >> THEN [x \in Range(Methods) |-> << >>]
                  ELSE metrics
    /\ idx' = 1
    /\ meth' = 1
    /\ UNCHANGED << index, k_values, queries, expected_ids, ki, results, failed,
                    submitted >>
    /\ UNCHANGED << mvars, tvars >>

\* for k in k_values: metrics = evaluate_search(..., k=k) is entered
StartK ==
    /\ spc = "loop"
    /\ ki <= Len(k_values)
    /\ spc' = "eval"
    /\ metrics' = [x \in Range(Methods) |-> << >>]
    /\ idx' = 1
    /\ meth' = 1
    /\ UNCHANGED << index, k_values, queries, expected_ids, ki, results, failed,
                    submitted >>
    /\ UNCHANGED << mvars, tvars >>

\* one metrics[method].append({...}) of evaluate_search
EvaluateCell ==
    /\ spc = "eval"
    /\ idx <= queries
    /\ \E first, second \in search(Methods[meth], idx, k_values[ki]) :
         LET got == cell(first, second, expected_ids[idx])
         IN  /\ submitted' = calls_of_cell(Methods[meth], QueryText(idx), idx,
                                           k_values[ki], first)
             /\ failed' = IF first.exc # "none" \/ second.exc # "none"
                          THEN << k_values[ki], idx, Methods[meth] >>
                          ELSE failed
             /\ IF got.exc # "none"
                THEN /\ spc' = "raised"
                     /\ UNCHANGED << metrics, idx, meth >>
                ELSE /\ metrics' = [metrics EXCEPT
                                      ![Methods[meth]] = Append(@, got.val)]
                     /\ IF meth < Len(Methods)
                        THEN meth' = meth + 1 /\ idx' = idx
                        ELSE meth' = 1 /\ idx' = idx + 1
                     /\ UNCHANGED spc
    /\ UNCHANGED << index, k_values, queries, expected_ids, ki, results >>
    /\ UNCHANGED << mvars, tvars >>

\* variant: the summary is taken as soon as the last query is reached,
\* before its records are appended
AppendRows_before_last_query ==
    /\ spc = "eval"
    /\ idx >= queries
    /\ meth = 1
    /\ results' = results \o aggregate_metrics(metrics, k_values[ki])
    /\ ki' = ki + 1
    /\ spc' = "loop"
    /\ UNCHANGED << index, k_values, queries, expected_ids, idx, meth, metrics,
                    failed, submitted >>
    /\ UNCHANGED << mvars, tvars >>

\* evaluate_search returns; summary = aggregate_metrics(metrics); one row
\* per method is appended to results
AppendRows ==
    /\ spc = "eval"
    /\ idx > queries
    /\ results' = results \o aggregate_metrics(metrics, k_values[ki])
    /\ ki' = ki + 1
    /\ spc' = "loop"
    /\ UNCHANGED << index, k_values, queries, expected_ids, idx, meth, metrics,
                    failed, submitted >>
    /\ UNCHANGED << mvars, tvars >>

\* the loop is exhausted: results_df = pd.DataFrame(results); print
PrintReport ==
    /\ spc = "loop"
    /\ ki > Len(k_values)
    /\ spc' = "done"
    /\ UNCHANGED << index, k_values, queries, expected_ids, ki, idx, meth,
                    metrics, results, failed, submitted >>
    /\ UNCHANGED << mvars, tvars >>

NextSearch ==
    \/ StartK
    \/ EvaluateCell
    \/ AppendRows
    \/ PrintReport

-----------------------------------------------------------------------------
(* Tool-calling notebook: the run cell (process_user_query under            *)
(* asyncio.gather, extract_tool_calls, the result table).  The time column  *)
(* of the table is a wall-clock reading no metric depends on; it is left    *)
(* out of the rows.                                                         *)

\* the eval set `tests`, tools named by their __name__
Tests == <<
    [query |-> "Send an email to john@example.com about the project update",
     expected |-> <<"send_email">>],
    [query |-> "What meetings do I have scheduled for tomorrow?",
     expected |-> <<"get_calendar_events">>],
    [query |-> "Set a reminder for my dentist appointment next week",
     expected |-> <<"create_reminder">>],
    [query |-> "Check my calendar for next week's meetings and set reminders for each one",
     expected |-> <<"get_calendar_events", "create_reminder">>],
    [query |-> "Look up my team meeting schedule and send the agenda to all participants",
     expected |-> <<"get_calendar_events", "send_email">>],
    [query |-> "Set a reminder for the client call and send a confirmation email to the team",
     expected |-> <<"create_reminder", "send_email">>] >>

\* the eval sets explored: runs of consecutive entries of Tests
TestSets ==
    { SubSeq(Tests, a, b) : a \in 1..Len(Tests),
                            b \in 1..Len(Tests) } \ { << >> }

\* responses of the model explored: no output attribute, a plain message,
\* a message followed by a call, one tool called twice, two tools called
Responses ==
    { [has_output |-> FALSE, output |-> << >>],
      [has_output |-> TRUE, output |-> << Message >>],
      [has_output |-> TRUE,
       output |-> << Message, FunctionCall("get_calendar_events") >>],
      [has_output |-> TRUE,
       output |-> << FunctionCall("send_email"), FunctionCall("send_email") >>],
      [has_output |-> TRUE,
       output |-> << FunctionCall("create_reminder"), FunctionCall("send_email") >>] }

\* variant: the results come in the order the coroutines finished
gather_as_completed(returned, finished) ==
    [i \in DOMAIN returned |-> returned[finished[i]]]

\* results = await asyncio.gather(*coros): the returned values in the order
\* of the coroutines passed in, whatever order they finished in
gather(returned, finished) == returned

\* calculate_precision_recall_for_queries over the rows zip(tests, results)
build_df(ts, res) ==
    [i \in DOMAIN ts |->
        LET expected == ts[i].expected
            actual   == extract_tool_calls(res[i])
        IN  [query     |-> ts[i].query,
             expected  |-> expected,
             actual    |-> actual,
             precision |-> calculate_precision(actual, expected).val,
             recall    |-> calculate_recall(actual, expected).val]]

\* variant: a semaphore of 1 lets only the first coroutine issue its call
InitTools_one_at_a_time ==
    /\ tpc = "gather"
    /\ tests \in { t \in TestSets : Len(t) <= MaxTests }
    /\ task = [i \in DOMAIN tests |-> IF i = 1 THEN "pending" ELSE "created"]
    /\ response = [i \in DOMAIN tests |-> [has_output |-> FALSE, output |-> << >>]]
    /\ order = << >>
    /\ df = << >>

\* coros = [...]; asyncio.gather schedules every coroutine at once and each
\* runs up to its await of client.responses.create: all calls are in flight
InitTools ==
    /\ tpc = "gather"
    /\ tests \in { t \in TestSets : Len(t) <= MaxTests }
    /\ task = [i \in DOMAIN tests |-> "pending"]
    /\ response = [i \in DOMAIN tests |-> [has_output |-> FALSE, output |-> << >>]]
    /\ order = << >>
    /\ df = << >>

\* await client.responses.create(...) of coroutine i returns; the coroutine
\* returns {"response": response, "time": ...}
Return(i) ==
    /\ tpc \in {"gather", "raised"}
    /\ task[i] = "pending"
    /\ \E r \in Responses : response' = [response EXCEPT ![i] = r]
    /\ task' = [task EXCEPT ![i] = "returned"]
    /\ order' = Append(order, i)
    /\ UNCHANGED << tpc, tests, df >>
    /\ UNCHANGED << mvars, svars >>

\* the remote call of coroutine i raises.  gather (return_exceptions=False)
\* propagates the first exception to the awaiting cell at once; the other
\* coroutines are not cancelled and run on, their results dropped.
Fail(i) ==
    /\ tpc \in {"gather", "raised"}
    /\ task[i] = "pending"
    /\ task' = [task EXCEPT ![i] = "raised"]
    /\ tpc' = "raised"
    /\ UNCHANGED << tests, response, order, df >>
    /\ UNCHANGED << mvars, svars >>

\* the remote call of coroutine i is one the service never answers;
\* process_user_query sets no timeout and nothing cancels the call
Hang(i) ==
    /\ tpc \in {"gather", "raised"}
    /\ task[i] = "pending"
    /\ task' = [task EXCEPT ![i] = "hung"]
    /\ UNCHANGED << tpc, tests, response, order, df >>
    /\ UNCHANGED << mvars, svars >>

\* variant: a call that does not return is given up and scored as a miss
BuildTable_on_timeout ==
    /\ tpc = "gather"
    /\ \A i \in DOMAIN task : task[i] \in {"returned", "hung"}
    /\ df' = build_df(tests, gather(response, order))
    /\ tpc' = "done"
    /\ UNCHANGED << tests, task, response, order >>
    /\ UNCHANGED << mvars, svars >>

\* every coroutine returned: gather returns, the table is built and scored
BuildTable ==
    /\ tpc = "gather"
    /\ \A i \in DOMAIN task : task[i] = "returned"
    /\ df' = build_df(tests, gather(response, order))
    /\ tpc' = "done"
    /\ UNCHANGED << tests, task, response, order >>
    /\ UNCHANGED << mvars, svars >>

NextTools ==
    \/ \E i \in DOMAIN task : Return(i)
    \/ \E i \in DOMAIN task : Fail(i)
    \/ \E i \in DOMAIN task : Hang(i)
    \/ BuildTable

-----------------------------------------------------------------------------
(* The two evaluation runs *)

Init ==
    /\ IdleMetrics
    /\ \/ InitSearch /\ IdleTools
       \/ InitTools /\ IdleSearch

Next == NextSearch \/ NextTools

Spec == Init /\ [][Next]_vars

-----------------------------------------------------------------------------
(* Claims about the metric functions (checked under SpecMetrics) *)

\* v is a multiple of 0.01 nearest to n / d
IsRounded2(v, n, d) ==
    \E h \in 0..100 :
        /\ v = Frac(h, 100)
        /\ 2 * (100 * n - h * d) <= d
        /\ 2 * (h * d - 100 * n) <= d

\* positions of xs whose item occurs in ys
HitPositions(xs, ys) == { i \in DOMAIN xs : \E j \in DOMAIN ys : ys[j] = xs[i] }

\* C5: calculate_recall returns 1.0 when expected is empty (whatever actual
\* is), else 0.0 when actual is empty, else the number of expected items
\* that occur in actual over the number of expected items, to 2 decimals.
C5_RecallCases ==
    mcall = "calculate_recall" =>
        /\ mret.exc = "none"
        /\ IF margs.expected = << >> THEN mret.val = One
           ELSE IF margs.actual = << >> THEN mret.val = Zero
           ELSE IsRounded2(mret.val,
                           Cardinality(HitPositions(margs.expected, margs.actual)),
                           Len(margs.expected))

C5_Witness ==
    /\ mcall = "calculate_recall"
    /\ margs.actual = <<"get_calendar_events">>
    /\ margs.expected = <<"get_calendar_events", "create_reminder">>
    /\ mret.val = Frac(1, 2)

\* C6: calculate_precision returns 0.0 whenever actual is empty, also when
\* expected is empty too.
C6_EmptyActualScoresZero ==
    (mcall = "calculate_precision" /\ margs.actual = << >>) =>
        (mret.exc = "none" /\ mret.val = Zero)

C6_Witness ==
    /\ mcall = "calculate_precision"
    /\ margs.actual = << >>
    /\ margs.expected = << >>
    /\ mret.val = Zero

C8_FirstMatchReciprocal ==
    mcall = "mrr" =>
        LET hits == HitPositions(margs.actual, margs.expected)
        IN  /\ mret.exc = "none"
            /\ IF hits = {} THEN mret.val = Zero
               ELSE /\ mret.val.num = 1
                    /\ mret.val.den \in hits
                    /\ \A i \in hits : mret.val.den <= i

C8_Witness ==
    /\ mcall = "mrr"
    /\ HitPositions(margs.actual, margs.expected) = {2, 3}
    /\ mret.val = Frac(1, 2)

\* C9: for non-empty result and expected lists, repeated items or not,
\* calculate_precision, calculate_recall and recall return a value in [0,1].
C9_UnitInterval ==
    ( /\ mcall \in {"calculate_precision", "calculate_recall", "recall"}
      /\ margs.actual # << >>
      /\ margs.expected # << >> ) =>
        (mret.exc = "none" /\ InUnit(mret.val))

C9_Witness ==
    /\ mcall = "recall"
    /\ margs.actual = <<"send_email", "send_email">>
    /\ margs.expected = <<"send_email">>
    /\ mret.val = One

\* C10: no metric function divides by zero: recall, contains_answer,
\* recall_score and calculate_per_tool_recall never raise ZeroDivisionError.
C10_NoDivisionByZero ==
    mcall \in {"recall", "contains_answer", "recall_score",
               "calculate_per_tool_recall"} =>
        mret.exc # "ZeroDivisionError"

-----------------------------------------------------------------------------
(* Claims about the two runs (checked under Spec) *)

RowsOf(k, method) ==
    { r \in DOMAIN results : results[r].k = k /\ results[r].method = method }

C2_RowsPairedByIndex ==
    tpc = "done" =>
        /\ Len(df) = Len(tests)
        /\ \A i \in DOMAIN tests :
              /\ df[i].query = tests[i].query
              /\ df[i].expected = tests[i].expected
              /\ df[i].actual = extract_tool_calls(response[i])
              /\ df[i].precision
                   = calculate_precision(extract_tool_calls(response[i]),
                                         tests[i].expected).val
              /\ df[i].recall
                   = calculate_recall(extract_tool_calls(response[i]),
                                      tests[i].expected).val
        /\ \A tool \in ToolNames :
              /\ expected_calls(df, tool)
                   = Cardinality({ i \in DOMAIN tests :
                                     tool \in Range(tests[i].expected) })
              /\ correct_calls(df, tool)
                   = Cardinality({ i \in DOMAIN tests :
                        /\ tool \in Range(tests[i].expected)
                        /\ tool \in Range(extract_tool_calls(response[i])) })

C2_Witness ==
    /\ tpc = "done"
    /\ Len(tests) = 3
    /\ order = << 3, 1, 2 >>
    /\ \A i \in 1..3 :
          extract_tool_calls(response[order[i]]) # extract_tool_calls(response[i])

\* C3: when the loop over k_values has finished, results has a row for
\* every (k, method) pair, 3 rows per entry of k_values, and with no
\* repeated k no pair twice.
C3_OneRowPerPair ==
    spc = "done" =>
        /\ Len(results) = Len(k_values) * 3
        /\ \A j \in DOMAIN k_values : \A m \in DOMAIN Methods :
              RowsOf(k_values[j], Methods[m]) # {}
        /\ (\A i, j \in DOMAIN k_values : i # j => k_values[i] # k_values[j])
              => \A j \in DOMAIN k_values : \A m \in DOMAIN Methods :
                    Cardinality(RowsOf(k_values[j], Methods[m])) = 1

C3_Witness ==
    /\ spc = "done"
    /\ k_values = << 1, 2 >>
    /\ queries = 2
    /\ Len(results) = 6

\* C4: the rows come grouped by k in the order of k_values and, inside one
\* k, in the order semantic, lexical, hybrid: the keys of the rows are a
\* function of k_values alone.
C4_RowOrder ==
    /\ Len(results) <= Len(k_values) * 3
    /\ \A r \in DOMAIN results :
          /\ results[r].k = k_values[((r - 1) \div 3) + 1]
          /\ results[r].method = << "semantic", "lexical", "hybrid" >>[((r - 1) % 3) + 1]

C4_Witness ==
    /\ spc = "done"
    /\ k_values = << 2, 1 >>
    /\ queries = 1
    /\ Len(results) = 6

-----------------------------------------------------------------------------
(* Claims about the per-tool breakdown (checked under SpecMetrics) *)

PerToolReturned == mcall = "calculate_per_tool_recall" /\ mret.exc = "none"

\* rows of the table (queries) whose expected / actual list names the tool
ExpectedIn(tool) == { i \in DOMAIN margs.rows : \E j \in DOMAIN margs.rows[i].expected :
                          margs.rows[i].expected[j] = tool }
CalledIn(tool) == { i \in DOMAIN margs.rows : \E j \in DOMAIN margs.rows[i].actual :
                        margs.rows[i].actual[j] = tool }

\* C11: for every tool, expected_calls is the number of queries whose
\* expected list contains it and correct_calls the number of queries whose
\* expected and actual lists both contain it; a call that was not expected
\* changes neither, and a tool repeated in one list counts once.
C11_PerToolCounts ==
    PerToolReturned =>
        \A r \in DOMAIN mret.val :
            /\ mret.val[r].expected_calls
                 = Cardinality(ExpectedIn(mret.val[r].tool))
            /\ mret.val[r].correct_calls
                 = Cardinality(ExpectedIn(mret.val[r].tool)
                               \cap CalledIn(mret.val[r].tool))

C11_Witness ==
    /\ PerToolReturned
    /\ margs.rows = << [expected |-> <<"send_email", "send_email">>,
                        actual |-> <<"send_email", "send_email">>],
                       [expected |-> <<"get_calendar_events">>,
                        actual |-> <<"send_email">>] >>
    /\ \E r \in DOMAIN mret.val :
          /\ mret.val[r].tool = "send_email"
          /\ mret.val[r].expected_calls = 1
          /\ mret.val[r].correct_calls = 1

\* C12: the breakdown has exactly one row for every tool of some expected
\* list; a tool that only occurs in actual lists is left out or reported
\* with expected_calls = 0, correct_calls = 0, recall 0; no division by 0.
C12_OneRowPerExpectedTool ==
    mcall = "calculate_per_tool_recall" =>
        /\ mret.exc # "ZeroDivisionError"
        /\ mret.exc = "none" =>
              /\ \A t \in ToolNames : ExpectedIn(t) # {} =>
                    Cardinality({ r \in DOMAIN mret.val : mret.val[r].tool = t }) = 1
              /\ \A r \in DOMAIN mret.val : ExpectedIn(mret.val[r].tool) = {} =>
                    /\ mret.val[r].expected_calls = 0
                    /\ mret.val[r].correct_calls = 0
                    /\ mret.val[r].recall = Zero

C12_Witness ==
    /\ PerToolReturned
    /\ \E r \in DOMAIN mret.val :
          /\ mret.val[r].tool = "get_calendar_events"
          /\ ExpectedIn("get_calendar_events") = {}
          /\ CalledIn("get_calendar_events") # {}
          /\ mret.val[r].expected_calls = 0
    /\ ExpectedIn("send_email") # {}

\* C13: the rows are in non-increasing order of recall, the recall column
\* being the one rounded to 2 decimals.
C13_SortedByRecall ==
    PerToolReturned =>
        \A r \in DOMAIN mret.val : r + 1 \in DOMAIN mret.val =>
            Leq(mret.val[r + 1].recall, mret.val[r].recall)

C13_Witness ==
    /\ PerToolReturned
    /\ Len(mret.val) = 2
    /\ mret.val[1].recall = One
    /\ mret.val[2].recall = Frac(1, 2)

-----------------------------------------------------------------------------
(* Claims about rounding and repeated items (checked under SpecMetrics) *)

\* C19 as stated: the value calculate_precision / calculate_recall returns
\* is the exact ratio (1 hit in 3 results is returned as 1/3).
C19_ExactRatioReturned ==
    /\ (mcall = "calculate_precision" /\ margs.actual # << >>) =>
          mret.val = Frac(Cardinality(HitPositions(margs.actual, margs.expected)),
                          Len(margs.actual))
    /\ (mcall = "calculate_recall" /\ margs.actual # << >> /\ margs.expected # << >>) =>
          mret.val = Frac(Cardinality(HitPositions(margs.expected, margs.actual)),
                          Len(margs.expected))

\* C19 amended: calculate_precision and calculate_recall round inside the
\* function: the value they return, which is the value stored in the
\* table, is a whole number of hundredths (1 hit in 3 is returned as 0.33).
C19_RoundedWhenReturned ==
    mcall \in {"calculate_precision", "calculate_recall"} =>
        /\ mret.exc = "none"
        /\ mret.val.den \in {1, 2, 4, 5, 10, 20, 25, 50, 100}
        /\ InUnit(mret.val)

C19_Witness ==
    /\ mcall = "calculate_precision"
    /\ Len(margs.actual) = 3
    /\ Cardinality(HitPositions(margs.actual, margs.expected)) = 1
    /\ mret.val = Frac(33, 100)

\* the list without its repeated items, first occurrences kept in order
RECURSIVE Dedup(_)
Dedup(xs) ==
    IF xs = << >> THEN << >>
    ELSE LET rest == Dedup(SubSeq(xs, 1, Len(xs) - 1))
         IN  IF xs[Len(xs)] \in Range(rest) THEN rest
             ELSE Append(rest, xs[Len(xs)])

\* C20: recall and calculate_recall do not raise on an expected list with
\* repeated items and return the value they return on the deduplicated
\* expected list.
C20_RecallIgnoresRepeats ==
    /\ mcall = "recall" /\ margs.expected # << >> =>
          mret = recall(margs.actual, Dedup(margs.expected))
    /\ mcall = "calculate_recall" =>
          mret = calculate_recall(margs.actual, Dedup(margs.expected))

-----------------------------------------------------------------------------
(* Claims about the adapters and evaluate_search (checked under Spec) *)

\* the query of the cell evaluate_search went through last
LastQuery ==
    IF spc = "raised" \/ meth > 1 THEN idx
    ELSE IF idx > 1 THEN idx - 1
    ELSE queries

IsBreaking(c) == c = "'" \/ c = "\"" \/ c = "\\"
IsHarmless(c) == ~IsBreaking(c)

\* C14: every text search_lexical and search_hybrid submit to the full-text
\* index is free of single quotes, double quotes and backslashes; the
\* adapter strips them, evaluate_search hands it the query as it is.
C14_SubmittedTextSanitized ==
    \A c \in DOMAIN submitted :
        /\ submitted[c].arg = QueryText(LastQuery)
        /\ submitted[c].sent.query_type \in {"fts", "hybrid"} =>
              /\ \A j \in DOMAIN submitted[c].sent.text :
                    ~IsBreaking(submitted[c].sent.text[j])
              /\ submitted[c].sent.text = SelectSeq(submitted[c].arg, IsHarmless)

C14_Witness ==
    /\ submitted # << >>
    /\ submitted[1].sent.query_type = "hybrid"
    /\ submitted[1].arg = <<"\"", "a", "\"", "\\">>
    /\ submitted[1].sent.text = <<"a">>

\* the rankings the index can return for query q at size k
Rankings(q, k) == UNION { Ranked(b, q, k) : b \in Behaviours }

\* C15: the recall and the mrr of one record are computed from one and the
\* same result list.
C15_RecordFromOneResult ==
    spc = "eval" =>
        \A m \in DOMAIN metrics : \A q \in DOMAIN metrics[m] :
            \E r \in Rankings(q, k_values[ki]) :
                /\ metrics[m][q].recall = recall(r, expected_ids[q]).val
                /\ metrics[m][q].mrr = mrr(r, expected_ids[q]).val

Deterministic == \A m \in DOMAIN index : index[m] # "any"

\* the list a deterministic index returns
TheRanking(m, q, k) == CHOOSE r \in Ranked(index[m], q, k) : TRUE

\* C18: with deterministic strategies the report is a function of the
\* inputs: the row of (k, method) holds the means of the metrics of the
\* lists the strategy returns for each query at that k, whichever k values
\* and queries were processed before, and two passes with the same k give
\* the same rows.
C18_Deterministic ==
    (spc = "done" /\ Deterministic) =>
        /\ \A r \in DOMAIN results :
              LET m == results[r].method
                  k == results[r].k
              IN  /\ results[r].recall
                       = mean([q \in 1..queries |->
                                recall(TheRanking(m, q, k), << DocId(q) >>).val])
                  /\ results[r].mrr
                       = mean([q \in 1..queries |->
                                mrr(TheRanking(m, q, k), << DocId(q) >>).val])
        /\ \A r1, r2 \in DOMAIN results :
              (results[r1].k = results[r2].k /\ results[r1].method = results[r2].method)
                  => results[r1] = results[r2]

C18_Witness ==
    /\ spc = "done"
    /\ Deterministic
    /\ index["hybrid"] = "second"
    /\ k_values = << 2, 2 >>
    /\ queries = 2
    /\ results[3] = results[6]
    /\ results[6].mrr = Frac(1, 2)

-----------------------------------------------------------------------------
(* Claims about timeouts and concurrency of the run cell (checked under Spec) *)

InFlight == { i \in DOMAIN task : task[i] \in {"pending", "hung"} }
Completed == { i \in DOMAIN task : task[i] \in {"returned", "raised"} }
Hung == { i \in DOMAIN task : task[i] = "hung" }

C17_InFlightBelowTotal ==
    Len(tests) >= 2 => Cardinality(InFlight) < Len(tests)

\* C17 amended: there is no concurrency limit.  asyncio.gather starts
\* every coroutine at once: every call that has not completed is in
\* flight, so up to len(tests) calls are in flight together.
C17_AllCallsInFlight ==
    tpc # "idle" =>
        /\ InFlight \cup Completed = DOMAIN tests
        /\ Cardinality(InFlight) = Len(tests) - Cardinality(Completed)

C17_Witness ==
    /\ tpc = "gather"
    /\ Len(tests) = 3
    /\ Cardinality(InFlight) = 3

-----------------------------------------------------------------------------
(* Claims about aggregation in the search driver (checked under Spec) *)

\* x is the arithmetic mean of the list xs (NaN for the empty list)
IsMeanOf(x, xs) ==
    IF xs = << >> THEN IsNaN(x)
    ELSE LET t == Sum(xs)
         IN  ~IsNaN(x) /\ x.num * t.den * Len(xs) = t.num * x.den

\* C21: while evaluate_search runs, each method's list holds one record per
\* query evaluated so far, in query order; rows are appended to the report
\* only when every method's list holds exactly len(queries) records, and
\* each appended row holds the arithmetic means of the recall and of the mrr
\* of these records.
C21_MeanOverAllQueries ==
    /\ [](spc = "eval" =>
            \A j \in DOMAIN Methods :
                Len(metrics[Methods[j]]) = IF j < meth THEN idx ELSE idx - 1)
    /\ [][results' # results =>
            /\ Len(results') = Len(results) + Len(Methods)
            /\ \A j \in DOMAIN Methods :
                 LET row == results'[Len(results) + j]
                     rec == metrics[Methods[j]]
                 IN  /\ Len(rec) = queries
                     /\ row.k = k_values[ki]
                     /\ row.method = Methods[j]
                     /\ IsMeanOf(row.recall, [q \in DOMAIN rec |-> rec[q].recall])
                     /\ IsMeanOf(row.mrr, [q \in DOMAIN rec |-> rec[q].mrr])]_vars

C21_Witness ==
    /\ queries = 2
    /\ Len(results) = 3
    /\ Len(metrics["semantic"]) = 2
    /\ metrics["semantic"][1].recall = One
    /\ metrics["semantic"][2].recall = Zero
    /\ results[1].recall = Frac(1, 2)

-----------------------------------------------------------------------------
(* Claims about the frame of the metric functions (checked under SpecMetrics) *)

Columns(frame) == UNION { DOMAIN frame[i] : i \in DOMAIN frame }

\* C22: no call of a metric function changes its arguments (the result
\* list, the expected list, the caller's table: its columns and its rows);
\* after calculate_precision_recall_for_queries the precision and recall
\* columns are on the returned table and not on the caller's.
C22_InputsNotMutated ==
    /\ [][margs' = margs]_vars
    /\ [](mcall = "calculate_precision_recall_for_queries" =>
            /\ Columns(margs.rows) \subseteq {"expected", "actual"}
            /\ Len(mret.val) = Len(margs.rows)
            /\ \A i \in DOMAIN mret.val :
                 /\ DOMAIN mret.val[i] = {"expected", "actual", "precision", "recall"}
                 /\ mret.val[i].expected = margs.rows[i].expected
                 /\ mret.val[i].actual = margs.rows[i].actual)

C22_Witness ==
    /\ mcall = "calculate_precision_recall_for_queries"
    /\ Len(margs.rows) = 2
    /\ Columns(margs.rows) = {"expected", "actual"}
    /\ mret.val[1].precision = One
    /\ mret.val[2].recall = Zero

-----------------------------------------------------------------------------
(* Relations between metric values (checked under SpecMetrics) *)

Min(S) == CHOOSE x \in S : \A y \in S : x <= y

\* C23: mrr does not increase with the rank of the first match: a list whose
\* first match comes no earlier than that of the scored list scores no
\* more; a first match at rank 1 scores 1, at rank 2 scores 1/2; a list
\* without match scores 0, strictly below every list with a match.
C23_MrrMonotone ==
    mcall = "mrr" =>
        LET h == HitPositions(margs.actual, margs.expected)
        IN  /\ mret.exc = "none"
            /\ (h # {} /\ Min(h) = 1) => mret.val = One
            /\ (h # {} /\ Min(h) = 2) => mret.val = Frac(1, 2)
            /\ h = {} => mret.val = Zero
            /\ \A other \in ItemLists :
                 LET g == HitPositions(other, margs.expected)
                     v == mrr(other, margs.expected).val
                 IN  /\ (h # {} /\ g # {} /\ Min(h) <= Min(g)) => Leq(v, mret.val)
                     /\ (h = {} /\ g # {}) => Less(mret.val, v)

C23_Witness ==
    /\ mcall = "mrr"
    /\ Len(margs.actual) = 3
    /\ HitPositions(margs.actual, margs.expected) = {2}
    /\ mret.val = Frac(1, 2)
    /\ Less(mrr(<< margs.actual[1], margs.actual[1], margs.actual[2] >>,
                margs.expected).val, mret.val)

-----------------------------------------------------------------------------
(* Claims about how a produced item is matched (checked under SpecMetrics) *)

\* x occurs in y as a run of consecutive characters
Occurs(x, y) ==
    \E a \in 1..(Len(y) + 1) :
        a + Len(x) - 1 <= Len(y) /\ SubSeq(y, a, a + Len(x) - 1) = x

Tokens(text) == Range(normalize(text))

\* an answer counts as found in a doc: more than 75% of its tokens are
\* among the doc's tokens
Overlaps(answer, doc) ==
    /\ Tokens(answer) # {}
    /\ 4 * Cardinality(Tokens(answer) \cap Tokens(doc)) > 3 * Cardinality(Tokens(answer))

-----------------------------------------------------------------------------
(* Claims relating the two search metrics (checked under SpecMetrics) *)

\* the result a smaller k would give when the larger result extends it
Prefix(xs, n) == SubSeq(xs, 1, n)

\* C25: with a non-empty expected list, a result list scores at least the
\* recall and at least the mrr of each of its prefixes, and exactly the mrr
\* of each prefix that already holds a match.
C25_LargerKNotWorse ==
    /\ (mcall = "recall" /\ margs.expected # << >>) =>
          /\ mret.exc = "none"
          /\ \A n \in 0..Len(margs.actual) :
               Leq(recall(Prefix(margs.actual, n), margs.expected).val, mret.val)
    /\ (mcall = "mrr" /\ margs.expected # << >>) =>
          /\ mret.exc = "none"
          /\ \A n \in 0..Len(margs.actual) :
               LET small == Prefix(margs.actual, n)
                   v == mrr(small, margs.expected).val
               IN  /\ Leq(v, mret.val)
                   /\ HitPositions(small, margs.expected) # {} => v = mret.val

C25_Witness ==
    /\ mcall = "recall"
    /\ Len(margs.expected) = 2
    /\ Len(margs.actual) = 3
    /\ recall(Prefix(margs.actual, 1), margs.expected).val = Zero
    /\ recall(Prefix(margs.actual, 2), margs.expected).val = Frac(1, 2)
    /\ mret.val = One

\* C26: for a non-empty expected list, mrr is above 0 exactly when recall
\* is above 0 on the same retrieved list.
C26_MetricsAgreeOnFound ==
    /\ (mcall = "mrr" /\ margs.expected # << >>) =>
          /\ mret.exc = "none"
          /\ Less(Zero, mret.val)
                <=> Less(Zero, recall(margs.actual, margs.expected).val)
    /\ (mcall = "recall" /\ margs.expected # << >>) =>
          /\ mret.exc = "none"
          /\ Less(Zero, mret.val)
                <=> Less(Zero, mrr(margs.actual, margs.expected).val)

C26_Witness ==
    /\ mcall = "mrr"
    /\ Len(margs.expected) = 3
    /\ mret.val = Frac(1, 3)
    /\ recall(margs.actual, margs.expected).val = Frac(1, 3)

-----------------------------------------------------------------------------
(* Bounds of the per-tool breakdown (checked under SpecMetrics) *)

RECURSIVE Total(_)
Total(ns) == IF ns = << >> THEN 0 ELSE Head(ns) + Total(Tail(ns))

\* C27: in every row of the per-tool table, 0 <= correct_calls <=
\* expected_calls <= number of rows of the input table and recall is in
\* [0,1]; the expected_calls of all rows add up to the number of distinct
\* expected tools summed over the queries.
C27_PerToolBounds ==
    PerToolReturned =>
        /\ \A r \in DOMAIN mret.val :
             /\ 0 <= mret.val[r].correct_calls
             /\ mret.val[r].correct_calls <= mret.val[r].expected_calls
             /\ mret.val[r].expected_calls <= Len(margs.rows)
             /\ InUnit(mret.val[r].recall)
        /\ Total([r \in DOMAIN mret.val |-> mret.val[r].expected_calls])
             = Total([i \in DOMAIN margs.rows |->
                        Cardinality({ margs.rows[i].expected[j] :
                                        j \in DOMAIN margs.rows[i].expected })])

C27_Witness ==
    /\ PerToolReturned
    /\ Len(margs.rows) = 2
    /\ Len(mret.val) = 2
    /\ mret.val[1].expected_calls = 2
    /\ mret.val[1].correct_calls = 1
    /\ mret.val[2].expected_calls = 0
    /\ margs.rows[1].expected = <<"send_email", "send_email">>

-----------------------------------------------------------------------------
(* Claims about the report and the adapters' inputs (checked under Spec) *)

\* C28: every mean recall and every mean mrr in the rows of the report is a
\* number in [0,1], whatever the dataset, the empty list of queries
\* included.
C28_ReportInUnit ==
    \A r \in DOMAIN results :
        InUnit(results[r].recall) /\ InUnit(results[r].mrr)

-----------------------------------------------------------------------------
(* Claims about sanitize_query (checked under SpecMetrics) *)

\* C29: sanitize_query returns its argument without its single quotes,
\* double quotes and backslashes, the other characters kept in order;
\* sanitizing the result again changes nothing; an argument with none of
\* the three characters is returned as it is.
C29_OnlyDeletes ==
    mcall = "sanitize_query" =>
        /\ mret.exc = "none"
        /\ mret.val = SelectSeq(margs.query, IsHarmless)
        /\ sanitize_query(mret.val) = mret.val
        /\ (\A i \in DOMAIN margs.query : IsHarmless(margs.query[i])) =>
               mret.val = margs.query

C29_Witness ==
    /\ mcall = "sanitize_query"
    /\ margs.query = << "'", "a", "\\" >>
    /\ mret.val = << "a" >>

-----------------------------------------------------------------------------
(* Claims about extract_tool_calls (checked under SpecMetrics) *)

\* positions of the function_call items of an output
CallPositions(output) == { i \in DOMAIN output : output[i].type = "function_call" }

\* the n-th smallest member of a set of positions
Nth(S, n) == CHOOSE x \in S : Cardinality({ y \in S : y < x }) = n - 1

\* C30: extract_tool_calls returns one name per function_call item of
\* response.output, in output order, repeated calls kept, and nothing for an
\* item of another type; the list is empty when the response has no output
\* attribute, an empty output or no function_call item.
C30_ExactlyTheFunctionCalls ==
    mcall = "extract_tool_calls" =>
        LET out   == margs.response.output
            calls == CallPositions(out)
        IN  /\ mret.exc = "none"
            /\ Len(mret.val) = Cardinality(calls)
            /\ \A n \in DOMAIN mret.val : mret.val[n] = out[Nth(calls, n)].name
            /\ ( \/ ~margs.response.has_output
                 \/ out = << >>
                 \/ calls = {} ) => mret.val = << >>

C30_Witness ==
    /\ mcall = "extract_tool_calls"
    /\ margs.response.output
         = << FunctionCall("send_email"), Message, FunctionCall("send_email") >>
    /\ mret.val = << "send_email", "send_email" >>

=============================================================================
